---- MODULE Spec2Model ----
(***************************************************************************)
(* Model of src/src/i2c.rs: the blocking master-mode I2C driver of the     *)
(* stm32f103xx HAL.  Every statement of the driver that touches a register *)
(* is one step; pc is the source line of the next statement to execute     *)
(* (0 when no driver function is running).  trace is the ordered list of   *)
(* register accesses made by the function that runs or ran last.           *)
(***************************************************************************)
EXTENDS Integers, Sequences, FiniteSets, TLC

(* ---- bounds of the model ---- *)
MaxBytes == 2      \* longest payload slice passed to write / write_read
MaxBuf == 7        \* longest receive buffer passed to write_read
MaxSpin == 1       \* busy_wait iterations that see no flag, per poll

(* ---- input alphabets ---- *)
Addrs == {80, 208}                 \* 0x50 and 0x50 + 128
TxBytes == {16, 32}                \* payload byte values (0x10, 0x20)
RxBytes == {170, 187}              \* values the data register can yield
PriorBytes == {0}                  \* content of the caller's buffer before the call
Freqs == {100000, 400000}          \* freq argument of the constructor
ClockInfos == {8000000, 36000000}  \* pclk1 of the clocks argument

Instances == {"I2C1", "I2C2"}
Pins == {"PB6", "PB7", "PB8", "PB9", "PB10", "PB11", "PA9", "PA10"}

\* type state of a pin handle: the impls exist for Alternate<PushPull> only
PinModes == {"Alternate<PushPull>", "Input<Floating>"}

\* variant: the trait is implemented for every pin type
SclPin_Open(i2c, pin, mode) == TRUE

\* unsafe impl SclPin<I2C> for pin<mode>
SclPin(i2c, pin, mode) ==
    /\ mode = "Alternate<PushPull>"
    /\ \/ i2c = "I2C1" /\ pin \in {"PB6", "PB8"}
       \/ i2c = "I2C2" /\ pin = "PB10"

\* unsafe impl SdaPin<I2C> for pin<mode>
SdaPin(i2c, pin, mode) ==
    /\ mode = "Alternate<PushPull>"
    /\ \/ i2c = "I2C1" /\ pin \in {"PB7", "PB9"}
       \/ i2c = "I2C2" /\ pin = "PB11"

VARIABLES
    owned,     \* peripheral handles and pins the caller owns
    ctrls,     \* live I2c { i2c, pins } values
    enr,       \* APB1 ENR: instances whose clock-enable bit is set
    rstr,      \* APB1 RSTR: instances whose reset bit is set
    cr1,       \* CR1 of each instance: the set of bits that are 1
    pc,        \* source line of the next statement, 0 = no call running
    call,      \* arguments of the running / last call
    buffer,    \* the buffer argument of write_read
    idx,       \* position of the running for-loop (1-based)
    sr1,       \* the local `sr1` of busy_wait: bits seen by the last read
    spin,      \* iterations of the running busy_wait that took "try again"
    trace,     \* register accesses of the running / last call, in order
    result,    \* what the last call returned
    released   \* the tuple the last free returned

vars == <<owned, ctrls, enr, rstr, cr1, pc, call, buffer, idx, sr1, spin,
          trace, result, released>>

NoCall == [op |-> "none", i2c |-> "none", pins |-> <<>>, modes |-> <<>>, addr |-> 0,
           bytes |-> <<>>, freq |-> 0, clocks |-> 0]

(* ---- register primitives ---- *)

\* reg.write(|w| w.bit().set_bit() / clear_bit()): starts from the reset
\* value (0) and changes the one bit, every other bit is written as 0
RegWrite(bit, v) == IF v = 1 THEN {bit} ELSE {}

\* reg.modify(|_, w| ...): read-modify-write, other bits are kept
RegModify(old, bit, v) == IF v = 1 THEN old \cup {bit} ELSE old \ {bit}

\* variant: the address is written unshifted
ShiftAddr_Unshifted(addr) == addr % 256

\* addr << 1 on a u8
ShiftAddr(addr) == (addr * 2) % 256

\* variant: the read-direction bit is not set
ShiftAddrRead_NoReadBit(addr) == ShiftAddr(addr)

\* (addr << 1) | 1 on a u8
ShiftAddrRead(addr) == ShiftAddr(addr) + 1

Ev(kind, name, v) == <<kind, name, v>>

Init ==
    /\ owned = Instances \cup Pins
    /\ ctrls = {}
    /\ enr = {}
    /\ rstr = {}
    /\ cr1 = [i \in Instances |-> {}]
    /\ pc = 0
    /\ call = NoCall
    /\ buffer = <<>>
    /\ idx = 0
    /\ sr1 = {}
    /\ spin = 0
    /\ trace = <<>>
    /\ result = "none"
    /\ released = <<>>

(* ---- statements ---- *)

\* apb1.enr().modify(..) / apb1.rstr().modify(..) at line l
Apb1Modify(l, reg, v, next) ==
    /\ pc = l
    /\ IF reg = "ENR"
         THEN enr' = RegModify(enr, call.i2c, v) /\ rstr' = rstr
         ELSE rstr' = RegModify(rstr, call.i2c, v) /\ enr' = enr
    /\ trace' = Append(trace, Ev(reg, call.i2c, v))
    /\ pc' = next
    /\ UNCHANGED <<owned, ctrls, cr1, call, buffer, idx, sr1, spin, result, released>>

\* i2c.cr1.write(|w| w.bit().set_bit() / clear_bit()) at line l
Cr1Write(l, bit, v, next) ==
    /\ pc = l
    /\ cr1' = [cr1 EXCEPT ![call.i2c] = RegWrite(bit, v)]
    /\ trace' = Append(trace, Ev("CR1", bit, v))
    /\ pc' = next
    /\ UNCHANGED <<owned, ctrls, enr, rstr, call, buffer, idx, sr1, spin, result, released>>

\* variant: the awaited flag is tested before the error flags
BusyWaitOutcome_FlagFirst(s, flag) ==
    IF flag \in s THEN "break"
    ELSE IF "berr" \in s THEN "Bus"
    ELSE IF "arlo" \in s THEN "Arbitration"
    ELSE "again"

\* variant: arbitration loss is tested before bus error
BusyWaitOutcome_ArloFirst(s, flag) ==
    IF "arlo" \in s THEN "Arbitration"
    ELSE IF "berr" \in s THEN "Bus"
    ELSE IF flag \in s THEN "break"
    ELSE "again"

\* variant: the loop gives up when a read shows no flag at all
BusyWaitOutcome_Timeout(s, flag) ==
    IF "berr" \in s THEN "Bus"
    ELSE IF "arlo" \in s THEN "Arbitration"
    ELSE "break"

\* outcome of one iteration of busy_wait!(i2c, flag) that read `s` from SR1
BusyWaitOutcome(s, flag) ==
    IF "berr" \in s THEN "Bus"
    ELSE IF "arlo" \in s THEN "Arbitration"
    ELSE IF flag \in s THEN "break"
    ELSE "again"

\* busy_wait!(self.i2c, flag) at line l: one iteration of the loop
BusyWait(l, flag, next) ==
    /\ pc = l
    /\ \E s \in SUBSET {"berr", "arlo", flag} :
         LET o == BusyWaitOutcome(s, flag) IN
         /\ sr1' = s
         /\ CASE o = "again" ->
                   /\ spin < MaxSpin
                   /\ spin' = spin + 1
                   /\ UNCHANGED <<pc, trace, result>>
              [] o = "break" ->
                   /\ spin' = 0
                   /\ pc' = next
                   /\ trace' = Append(trace, Ev("POLL", flag, 0))
                   /\ UNCHANGED result
              [] OTHER ->
                   /\ spin' = 0
                   /\ pc' = 0
                   /\ trace' = Append(trace, Ev("POLL", flag, 0))
                   /\ result' = o
    /\ UNCHANGED <<owned, ctrls, enr, rstr, cr1, call, buffer, idx, released>>

\* self.i2c.dr.write(|w| w.dr().bits(v)) at line l
DrWrite(l, v, next) ==
    /\ pc = l
    /\ trace' = Append(trace, Ev("DR", "W", v))
    /\ pc' = next
    /\ UNCHANGED <<owned, ctrls, enr, rstr, cr1, call, buffer, idx, sr1, spin, result, released>>

\* self.i2c.sr1.read() / self.i2c.sr2.read() at line l, value discarded
SrRead(l, reg, next) ==
    /\ pc = l
    /\ trace' = Append(trace, Ev(reg, "R", 0))
    /\ pc' = next
    /\ UNCHANGED <<owned, ctrls, enr, rstr, cr1, call, buffer, idx, sr1, spin, result, released>>

\* return Ok(()) at line l
ReturnOk(l) ==
    /\ pc = l
    /\ pc' = 0
    /\ result' = "Ok"
    /\ UNCHANGED <<owned, ctrls, enr, rstr, cr1, call, buffer, idx, sr1, spin, trace, released>>

(* ---- I2c::i2c1 / I2c::i2c2 and free ---- *)

\* variant: the peripheral handle is copied instead of moved
i2cX_call_CopiesHandle ==
    /\ pc = 0
    /\ \E i2c \in Instances, scl \in Pins, sda \in Pins,
          sclMode \in PinModes, sdaMode \in PinModes,
          freq \in Freqs, clocks \in ClockInfos :
         /\ {i2c, scl, sda} \subseteq owned
         /\ SclPin(i2c, scl, sclMode)
         /\ SdaPin(i2c, sda, sdaMode)
         /\ owned' = owned \ {scl, sda}
         /\ call' = [NoCall EXCEPT !.op = "i2cX", !.i2c = i2c,
                                   !.pins = <<scl, sda>>,
                                   !.modes = <<sclMode, sdaMode>>,
                                   !.freq = freq, !.clocks = clocks]
    /\ pc' = 83
    /\ trace' = <<>>
    /\ result' = "none"
    /\ sr1' = {}
    /\ buffer' = <<>>
    /\ idx' = 0
    /\ UNCHANGED <<ctrls, enr, rstr, cr1, spin, released>>

\* entry of $i2cX(i2c, pins, freq, clocks, apb1): the arguments are moved in
i2cX_call ==
    /\ pc = 0
    /\ \E i2c \in Instances, scl \in Pins, sda \in Pins,
          sclMode \in PinModes, sdaMode \in PinModes,
          freq \in Freqs, clocks \in ClockInfos :
         /\ {i2c, scl, sda} \subseteq owned
         /\ SclPin(i2c, scl, sclMode)
         /\ SdaPin(i2c, sda, sdaMode)
         /\ owned' = owned \ {i2c, scl, sda}
         /\ call' = [NoCall EXCEPT !.op = "i2cX", !.i2c = i2c,
                                   !.pins = <<scl, sda>>,
                                   !.modes = <<sclMode, sdaMode>>,
                                   !.freq = freq, !.clocks = clocks]
    /\ pc' = 83
    /\ trace' = <<>>
    /\ result' = "none"
    /\ sr1' = {}
    /\ buffer' = <<>>
    /\ idx' = 0
    /\ UNCHANGED <<ctrls, enr, rstr, cr1, spin, released>>

\* I2c { i2c, pins }
i2cX_return ==
    /\ pc = 164
    /\ ctrls' = ctrls \cup {[i2c |-> call.i2c, pins |-> call.pins]}
    /\ pc' = 0
    /\ result' = "Self"
    /\ UNCHANGED <<owned, enr, rstr, cr1, call, buffer, idx, sr1, spin, trace, released>>

\* variant: the reset bit is cleared first and left set
i2cX_ResetInverted ==
    \/ i2cX_call
    \/ Apb1Modify(83, "ENR", 1, 84)
    \/ Apb1Modify(84, "RSTR", 0, 85)
    \/ Apb1Modify(85, "RSTR", 1, 162)
    \/ Cr1Write(162, "PE", 1, 164)
    \/ i2cX_return

i2cX ==
    \/ i2cX_call
    \/ Apb1Modify(83, "ENR", 1, 84)
    \/ Apb1Modify(84, "RSTR", 1, 85)
    \/ Apb1Modify(85, "RSTR", 0, 162)
    \/ Cr1Write(162, "PE", 1, 164)
    \/ i2cX_return

\* free(self) -> (self.i2c, self.pins)
free ==
    /\ pc = 0
    /\ \E c \in ctrls :
         /\ ctrls' = ctrls \ {c}
         /\ owned' = owned \cup {c.i2c, c.pins[1], c.pins[2]}
         /\ released' = <<c.i2c, c.pins>>
         /\ call' = [NoCall EXCEPT !.op = "free", !.i2c = c.i2c]
    /\ trace' = <<>>
    /\ result' = "Released"
    /\ sr1' = {}
    /\ buffer' = <<>>
    /\ idx' = 0
    /\ UNCHANGED <<enr, rstr, cr1, pc, spin>>

(* ---- control statements shared by write and write_read ---- *)

\* `for byte in bytes` at line l: next element or leave the loop
ForBytes(l, body, exit) ==
    /\ pc = l
    /\ pc' = IF idx <= Len(call.bytes) THEN body ELSE exit
    /\ UNCHANGED <<owned, ctrls, enr, rstr, cr1, call, buffer, idx, sr1, spin, trace, result, released>>

\* variant: the slice is sent last byte first
DrWriteByte_Reversed(l, head) ==
    /\ pc = l
    /\ trace' = Append(trace, <<"DR", "W", call.bytes[Len(call.bytes) + 1 - idx]>>)
    /\ idx' = idx + 1
    /\ pc' = head
    /\ UNCHANGED <<owned, ctrls, enr, rstr, cr1, call, buffer, sr1, spin, result, released>>

\* self.i2c.dr.write(|w| w.dr().bits(*byte)) at line l, then back to the loop head
DrWriteByte(l, head) ==
    /\ pc = l
    /\ trace' = Append(trace, Ev("DR", "W", call.bytes[idx]))
    /\ idx' = idx + 1
    /\ pc' = head
    /\ UNCHANGED <<owned, ctrls, enr, rstr, cr1, call, buffer, sr1, spin, result, released>>

\* buffer[i] = self.i2c.dr.read().dr().bits() at line l (i is 1-based)
DrRead(l, i, next) ==
    /\ pc = l
    /\ \E v \in RxBytes :
         /\ buffer' = [buffer EXCEPT ![i] = v]
         /\ trace' = Append(trace, Ev("DR", "R", v))
    /\ pc' = next
    /\ UNCHANGED <<owned, ctrls, enr, rstr, cr1, call, idx, sr1, spin, result, released>>

(* ---- Write::write ---- *)

write_call ==
    /\ pc = 0
    /\ \E c \in ctrls, addr \in Addrs, n \in 0..MaxBytes :
         \E bytes \in [1..n -> TxBytes] :
           call' = [NoCall EXCEPT !.op = "write", !.i2c = c.i2c,
                                  !.addr = addr, !.bytes = bytes]
    /\ pc' = 178
    /\ trace' = <<>>
    /\ result' = "none"
    /\ sr1' = {}
    /\ buffer' = <<>>
    /\ idx' = 1
    /\ UNCHANGED <<owned, ctrls, enr, rstr, cr1, spin, released>>

write ==
    \/ write_call
    \/ Cr1Write(178, "START", 1, 179)
    \/ BusyWait(179, "sb", 182)
    \/ DrWrite(182, ShiftAddr(call.addr), 183)
    \/ BusyWait(183, "addr", 186)
    \/ SrRead(186, "SR2", 188)
    \/ ForBytes(188, 191, 198)
    \/ BusyWait(191, "tx_e", 194)
    \/ DrWriteByte(194, 188)
    \/ BusyWait(198, "btf", 201)
    \/ Cr1Write(201, "STOP", 1, 203)
    \/ ReturnOk(203)

(* ---- WriteRead::write_read ---- *)

write_read_call ==
    /\ pc = 0
    /\ \E c \in ctrls, addr \in Addrs, n \in 0..MaxBytes, m \in 0..MaxBuf :
         \E bytes \in [1..n -> TxBytes] :
           /\ call' = [NoCall EXCEPT !.op = "write_read", !.i2c = c.i2c,
                                     !.addr = addr, !.bytes = bytes]
           /\ \E b \in [1..m -> PriorBytes] : buffer' = b
    /\ pc' = 220
    /\ trace' = <<>>
    /\ result' = "none"
    /\ sr1' = {}
    /\ idx' = 1
    /\ UNCHANGED <<owned, ctrls, enr, rstr, cr1, spin, released>>

\* variant: length 2 is treated like length 1, POS is never set
MatchLen255_NoPos ==
    /\ pc = 255
    /\ pc' = CASE Len(buffer) = 1 -> 257
               [] Len(buffer) = 2 -> 257
               [] OTHER -> 267
    /\ UNCHANGED <<owned, ctrls, enr, rstr, cr1, call, buffer, idx, sr1, spin, trace, result, released>>

\* match buffer.len() { 1 => .., 2 => .., _ => {} } at line 255
MatchLen255 ==
    /\ pc = 255
    /\ pc' = CASE Len(buffer) = 1 -> 257
               [] Len(buffer) = 2 -> 260
               [] OTHER -> 267
    /\ UNCHANGED <<owned, ctrls, enr, rstr, cr1, call, buffer, idx, sr1, spin, trace, result, released>>

\* if buffer.len() > 3 { for byte in &mut buffer[3..] at lines 270-271
IfLenGt3 ==
    /\ pc = 270
    /\ idx' = 4
    /\ pc' = IF Len(buffer) > 3 THEN 271 ELSE 278
    /\ UNCHANGED <<owned, ctrls, enr, rstr, cr1, call, buffer, sr1, spin, trace, result, released>>

\* `for byte in &mut buffer[3..]` at line 271: next element or leave the loop
ForBuffer ==
    /\ pc = 271
    /\ pc' = IF idx <= Len(buffer) THEN 272 ELSE 278
    /\ UNCHANGED <<owned, ctrls, enr, rstr, cr1, call, buffer, idx, sr1, spin, trace, result, released>>

\* variant: the drain loop stores from the start of the buffer
DrReadByte_FromStart ==
    /\ pc = 274
    /\ \E v \in RxBytes :
         /\ buffer' = [buffer EXCEPT ![idx - 3] = v]
         /\ trace' = Append(trace, <<"DR", "R", v>>)
    /\ idx' = idx + 1
    /\ pc' = 271
    /\ UNCHANGED <<owned, ctrls, enr, rstr, cr1, call, sr1, spin, result, released>>

\* *byte = self.i2c.dr.read().dr().bits() at line 274
DrReadByte ==
    /\ pc = 274
    /\ \E v \in RxBytes :
         /\ buffer' = [buffer EXCEPT ![idx] = v]
         /\ trace' = Append(trace, Ev("DR", "R", v))
    /\ idx' = idx + 1
    /\ pc' = 271
    /\ UNCHANGED <<owned, ctrls, enr, rstr, cr1, call, sr1, spin, result, released>>

\* variant: length 3 takes the arm of length 2
MatchLen278_Len3AsLen2 ==
    /\ pc = 278
    /\ pc' = CASE Len(buffer) = 1 -> 280
               [] Len(buffer) = 2 -> 288
               [] Len(buffer) = 3 -> 288
               [] OTHER -> 318
    /\ UNCHANGED <<owned, ctrls, enr, rstr, cr1, call, buffer, idx, sr1, spin, trace, result, released>>

\* match buffer.len() { 1 => .., 2 => .., 3 => .., _ => {} } at line 278
MatchLen278 ==
    /\ pc = 278
    /\ pc' = CASE Len(buffer) = 1 -> 280
               [] Len(buffer) = 2 -> 288
               [] Len(buffer) = 3 -> 299
               [] OTHER -> 318
    /\ UNCHANGED <<owned, ctrls, enr, rstr, cr1, call, buffer, idx, sr1, spin, trace, result, released>>

\* variant: the write phase does not wait for BTF before STOP
write_read_NoBtfInWritePhase ==
    \/ write_read_call
    \/ Cr1Write(220, "START", 1, 221)
    \/ BusyWait(221, "sb", 224)
    \/ DrWrite(224, ShiftAddr(call.addr), 225)
    \/ BusyWait(225, "addr", 228)
    \/ SrRead(228, "SR2", 230)
    \/ ForBytes(230, 233, 243)
    \/ BusyWait(233, "tx_e", 236)
    \/ DrWriteByte(236, 230)
    \/ Cr1Write(243, "STOP", 1, 245)
    \/ Cr1Write(245, "ACK", 1, 248)
    \/ Cr1Write(248, "START", 1, 249)
    \/ BusyWait(249, "sb", 252)
    \/ DrWrite(252, ShiftAddrRead(call.addr), 253)
    \/ BusyWait(253, "addr", 255)
    \/ MatchLen255
    \/ Cr1Write(257, "ACK", 0, 267)
    \/ Cr1Write(260, "ACK", 0, 261)
    \/ Cr1Write(261, "POS", 1, 267)
    \/ SrRead(267, "SR1", 268)
    \/ SrRead(268, "SR2", 270)
    \/ IfLenGt3
    \/ ForBuffer
    \/ BusyWait(272, "rx_ne", 274)
    \/ DrReadByte
    \/ MatchLen278
    \/ BusyWait(280, "rx_ne", 283)
    \/ Cr1Write(283, "STOP", 1, 285)
    \/ DrRead(285, 1, 318)
    \/ BusyWait(288, "rx_ne", 290)
    \/ BusyWait(290, "btf", 293)
    \/ Cr1Write(293, "STOP", 1, 295)
    \/ DrRead(295, 1, 296)
    \/ DrRead(296, 2, 318)
    \/ BusyWait(299, "rx_ne", 301)
    \/ BusyWait(301, "btf", 303)
    \/ Cr1Write(303, "ACK", 0, 305)
    \/ BusyWait(305, "rx_ne", 307)
    \/ BusyWait(307, "btf", 310)
    \/ Cr1Write(310, "STOP", 1, 312)
    \/ DrRead(312, 1, 313)
    \/ DrRead(313, 2, 318)
    \/ ReturnOk(318)

write_read ==
    \/ write_read_call
    \/ Cr1Write(220, "START", 1, 221)
    \/ BusyWait(221, "sb", 224)
    \/ DrWrite(224, ShiftAddr(call.addr), 225)
    \/ BusyWait(225, "addr", 228)
    \/ SrRead(228, "SR2", 230)
    \/ ForBytes(230, 233, 240)
    \/ BusyWait(233, "tx_e", 236)
    \/ DrWriteByte(236, 230)
    \/ BusyWait(240, "btf", 243)
    \/ Cr1Write(243, "STOP", 1, 245)
    \/ Cr1Write(245, "ACK", 1, 248)
    \/ Cr1Write(248, "START", 1, 249)
    \/ BusyWait(249, "sb", 252)
    \/ DrWrite(252, ShiftAddrRead(call.addr), 253)
    \/ BusyWait(253, "addr", 255)
    \/ MatchLen255
    \/ Cr1Write(257, "ACK", 0, 267)
    \/ Cr1Write(260, "ACK", 0, 261)
    \/ Cr1Write(261, "POS", 1, 267)
    \/ SrRead(267, "SR1", 268)
    \/ SrRead(268, "SR2", 270)
    \/ IfLenGt3
    \/ ForBuffer
    \/ BusyWait(272, "rx_ne", 274)
    \/ DrReadByte
    \/ MatchLen278
    \/ BusyWait(280, "rx_ne", 283)
    \/ Cr1Write(283, "STOP", 1, 285)
    \/ DrRead(285, 1, 318)
    \/ BusyWait(288, "rx_ne", 290)
    \/ BusyWait(290, "btf", 293)
    \/ Cr1Write(293, "STOP", 1, 295)
    \/ DrRead(295, 1, 296)
    \/ DrRead(296, 2, 318)
    \/ BusyWait(299, "rx_ne", 301)
    \/ BusyWait(301, "btf", 303)
    \/ Cr1Write(303, "ACK", 0, 305)
    \/ BusyWait(305, "rx_ne", 307)
    \/ BusyWait(307, "btf", 310)
    \/ Cr1Write(310, "STOP", 1, 312)
    \/ DrRead(312, 1, 313)
    \/ DrRead(313, 2, 318)
    \/ ReturnOk(318)

Next ==
    \/ i2cX
    \/ free
    \/ write
    \/ write_read

\* The complete driver.  Its state space is the product of the ownership
\* states with the transaction states (about 2.8 million states, 18 minutes
\* of TLC); the properties are checked under LifeSpec and TxnSpec below,
\* which split it at the return of the constructor.
Spec == Init /\ [][Next]_vars

(* ---- construction and release only ---- *)

NextLife ==
    \/ i2cX
    \/ free

LifeSpec == Init /\ [][NextLife]_vars

(* ---- transactions on one constructed controller ---- *)

\* the pin pair the controller of the transaction runs was built with
FirstPins(i2c) == IF i2c = "I2C1" THEN <<"PB6", "PB7">> ELSE <<"PB10", "PB11">>

\* the state right after $i2cX(i2c, FirstPins(i2c), 100 kHz, 8 MHz, apb1) returned
InitTxn ==
    \E i2c \in Instances :
      /\ owned = (Instances \cup Pins) \ {i2c, FirstPins(i2c)[1], FirstPins(i2c)[2]}
      /\ ctrls = {[i2c |-> i2c, pins |-> FirstPins(i2c)]}
      /\ enr = {i2c}
      /\ rstr = {}
      /\ cr1 = [i \in Instances |-> IF i = i2c THEN {"PE"} ELSE {}]
      /\ pc = 0
      /\ call = [NoCall EXCEPT !.op = "i2cX", !.i2c = i2c, !.pins = FirstPins(i2c),
                               !.modes = <<"Alternate<PushPull>", "Alternate<PushPull>">>,
                               !.freq = 100000, !.clocks = 8000000]
      /\ buffer = <<>>
      /\ idx = 0
      /\ sr1 = {}
      /\ spin = 0
      /\ trace = <<Ev("ENR", i2c, 1), Ev("RSTR", i2c, 1), Ev("RSTR", i2c, 0),
                   Ev("CR1", "PE", 1)>>
      /\ result = "Self"
      /\ released = <<>>

NextTxn ==
    \/ write
    \/ write_read

TxnSpec == InitTxn /\ [][NextTxn]_vars

\* one transaction on the freshly constructed controller: the caller calls
\* write or write_read once and the call runs
NextFirstCall == (pc # 0 \/ result = "Self") /\ NextTxn

\* the running call reaches its next statement; at a busy_wait this is an
\* iteration whose status read shows the awaited flag or an error flag
Advance == NextFirstCall /\ pc # 0 /\ pc' # pc

\* one transaction on hardware that does not withhold all three flags
\* forever: a call that can advance does so eventually
FairTxnSpec == InitTxn /\ [][NextFirstCall]_vars /\ WF_vars(Advance)

(* ======================================================================= *)
(* Vocabulary of the properties: the register accesses found in a trace    *)
(* ======================================================================= *)

EvStart == <<"CR1", "START", 1>>
EvStop == <<"CR1", "STOP", 1>>
EvAckSet == <<"CR1", "ACK", 1>>
EvAckClear == <<"CR1", "ACK", 0>>
EvPosSet == <<"CR1", "POS", 1>>
EvPeSet == <<"CR1", "PE", 1>>
EvSr1Read == <<"SR1", "R", 0>>
EvSr2Read == <<"SR2", "R", 0>>
EvPoll(flag) == <<"POLL", flag, 0>>
EvDrWrite(v) == <<"DR", "W", v>>
EvDrRead(v) == <<"DR", "R", v>>

IsDrRead(e) == e[1] = "DR" /\ e[2] = "R"
IsDrWrite(e) == e[1] = "DR" /\ e[2] = "W"
IsRegWrite(e) == e[1] = "CR1" \/ IsDrWrite(e)

\* a transaction function has returned
Returned(op) == pc = 0 /\ call.op = op
ReturnedOk(op) == Returned(op) /\ result = "Ok"

\* every START of the trace is followed by a STOP
AllStartsStopped(t) ==
    \A i \in 1..Len(t) : t[i] = EvStart => \E j \in (i + 1)..Len(t) : t[j] = EvStop

\* the data-register reads of a trace, in order
DrReads(t) == SelectSeq(t, IsDrRead)

\* the trace with the values of the data-register reads blanked
Shape(t) == [i \in 1..Len(t) |-> IF IsDrRead(t[i]) THEN EvDrRead(0) ELSE t[i]]

\* what follows the two status reads that clear ADDR in the read phase
AfterAddrClear(t) ==
    LET k == CHOOSE i \in 1..Len(t) : t[i] = EvSr1Read
    IN SubSeq(t, k + 2, Len(t))

RECURSIVE ExpectedData(_)
\* poll TxE, write the byte: once per payload byte, in slice order
ExpectedData(bytes) ==
    IF bytes = <<>> THEN <<>>
    ELSE <<EvPoll("tx_e"), EvDrWrite(Head(bytes))>> \o ExpectedData(Tail(bytes))

\* the register accesses of an error-free write of section 4.3
ExpectedWrite(addr, bytes) ==
    <<EvStart, EvPoll("sb"), EvDrWrite((addr * 2) % 256), EvPoll("addr"), EvSr2Read>>
      \o ExpectedData(bytes)
      \o <<EvPoll("btf"), EvStop>>

RECURSIVE ExpectedDrain(_)
\* poll RxNE, read the data register: k times
ExpectedDrain(k) ==
    IF k = 0 THEN <<>>
    ELSE <<EvPoll("rx_ne"), EvDrRead(0)>> \o ExpectedDrain(k - 1)

\* the length-3 tail of section 4.4 step 7, read values blanked
ExpectedTail3 ==
    <<EvPoll("rx_ne"), EvPoll("btf"), EvAckClear, EvPoll("rx_ne"), EvPoll("btf"),
      EvStop, EvDrRead(0), EvDrRead(0)>>

(* ======================================================================= *)
(* Properties                                                              *)
(* ======================================================================= *)

\* C1: whenever write or write_read returns Ok, every START the call wrote
\* to the control register is followed by a STOP, for every buffer length
\* (0 and lengths above 3 included).  The code breaks this: write_read with
\* a buffer of length 0 or of length 4 and more returns Ok with the repeated
\* START still open.
C1_OkCallBracketsStartStop ==
    (ReturnedOk("write") \/ ReturnedOk("write_read")) => AllStartsStopped(trace)

\* C2: when write_read returns Ok with a buffer of length n >= 1, exactly n
\* data-register reads were made and buffer[i] holds the i-th of them.  The
\* code breaks this for n >= 3.
C2_BufferFilledInOrder ==
    (ReturnedOk("write_read") /\ Len(buffer) >= 1) =>
        /\ Len(DrReads(trace)) = Len(buffer)
        /\ \A i \in 1..Len(buffer) : buffer[i] = DrReads(trace)[i][3]

\* C3: for a buffer longer than 3, write_read runs the drain loop once per
\* byte from index 3 onward and then the length-3 tail.  The code runs the
\* drain loop and then nothing.
C3_DrainThenTail3 ==
    (ReturnedOk("write_read") /\ Len(buffer) > 3) =>
        Shape(AfterAddrClear(trace)) = ExpectedDrain(Len(buffer) - 3) \o ExpectedTail3

\* C4: a status poll of write or write_read that reads the bus-error flag
\* makes the call return Error::Bus, and that poll is the last register
\* access of the call: no control- or data-register write follows, no STOP.
C4_BusErrorAborts ==
    (call.op \in {"write", "write_read"} /\ "berr" \in sr1) =>
        /\ pc = 0
        /\ result = "Bus"
        /\ trace # <<>>
        /\ trace[Len(trace)][1] = "POLL"

\* C4 witness: write_read was stopped by a bus error while receiving, after
\* the repeated START, and no STOP follows that START.
C4_Witness ==
    /\ Returned("write_read")
    /\ result = "Bus"
    /\ "berr" \in sr1
    /\ trace[Len(trace)] = EvPoll("rx_ne")
    /\ ~AllStartsStopped(trace)

\* the first poll of write (the wait for SB) has just read `sr1`
FirstPollOfWrite ==
    /\ call.op = "write"
    /\ Len(trace) = 2
    /\ trace[2] = EvPoll("sb")

NoDrWrite(t) == \A i \in 1..Len(t) : ~IsDrWrite(t[i])

\* C5 as stated: if the first poll of write reads arbitration loss, write
\* returns Error::Arbitration and writes nothing to the data register.
C5_Original ==
    (FirstPollOfWrite /\ "arlo" \in sr1) =>
        (pc = 0 /\ result = "Arbitration" /\ NoDrWrite(trace))

\* C5 amended: if the first poll of write reads arbitration loss, write
\* returns at once without any data-register write; the error is
\* Error::Arbitration when the same read does not show bus error, and
\* Error::Bus when it does.
C5_ArbitrationAtFirstPoll ==
    (FirstPollOfWrite /\ "arlo" \in sr1) =>
        /\ pc = 0
        /\ NoDrWrite(trace)
        /\ result = (IF "berr" \in sr1 THEN "Bus" ELSE "Arbitration")

\* C5 witness: write returned Error::Arbitration from its first poll, which
\* read the arbitration-loss flag together with SB.
C5_Witness ==
    /\ FirstPollOfWrite
    /\ sr1 = {"arlo", "sb"}
    /\ pc = 0
    /\ result = "Arbitration"

\* C6: an error-free write(addr, bytes) performs exactly START, poll SB,
\* address byte, poll ADDR, SR2 read, then poll TxE and data write per
\* payload byte in slice order, then poll BTF, then STOP, and returns Ok.
C6_WriteSequence ==
    ReturnedOk("write") => trace = ExpectedWrite(call.addr, call.bytes)

\* C6 witness: a write of two different payload bytes returned Ok.
C6_Witness ==
    /\ ReturnedOk("write")
    /\ call.bytes = <<16, 32>>
    /\ spin = 0

\* C7: write(addr, []) issues START, the address phase and STOP; the
\* address byte is the only value written to the data register, and BTF is
\* polled before STOP.
C7_EmptyWrite ==
    (ReturnedOk("write") /\ call.bytes = <<>>) =>
        /\ trace = <<EvStart, EvPoll("sb"), EvDrWrite((call.addr * 2) % 256),
                     EvPoll("addr"), EvSr2Read, EvPoll("btf"), EvStop>>
        /\ SelectSeq(trace, IsDrWrite) = <<EvDrWrite((call.addr * 2) % 256)>>

\* C7 witness: a write with an empty payload returned Ok.
C7_Witness ==
    /\ ReturnedOk("write")
    /\ call.bytes = <<>>
    /\ call.addr = 80

\* C8 as stated: the literal access sequence of write_read(0x50, [0x10],
\* buffer of length 2), which has no poll of SB after either START.
C8_Original ==
    (ReturnedOk("write_read") /\ call.addr = 80 /\ call.bytes = <<16>>
       /\ Len(buffer) = 2) =>
        trace = <<EvStart, EvDrWrite(160), EvPoll("addr"), EvSr2Read,
                  EvPoll("tx_e"), EvDrWrite(16), EvPoll("btf"), EvStop,
                  EvAckSet, EvStart, EvDrWrite(161), EvPoll("addr"),
                  EvAckClear, EvPosSet, EvSr1Read, EvSr2Read,
                  EvPoll("rx_ne"), EvPoll("btf"), EvStop,
                  EvDrRead(buffer[1]), EvDrRead(buffer[2])>>

\* C8 amended: an error-free write_read with a length-2 buffer performs the
\* stated sequence with a poll of SB after each of the two STARTs: START,
\* poll SB, address byte, poll ADDR, SR2 read, poll TxE and data write per
\* byte, poll BTF, STOP, ACK set, START, poll SB, address byte with the read
\* bit, poll ADDR, ACK clear, POS set, SR1 read, SR2 read, poll RxNE, poll
\* BTF, STOP, two data-register reads stored in buffer[0] and buffer[1].
C8_WriteReadLen2Sequence ==
    (ReturnedOk("write_read") /\ Len(buffer) = 2) =>
        trace = ExpectedWrite(call.addr, call.bytes)
                  \o <<EvAckSet, EvStart, EvPoll("sb"),
                       EvDrWrite(((call.addr * 2) % 256) + 1), EvPoll("addr"),
                       EvAckClear, EvPosSet, EvSr1Read, EvSr2Read,
                       EvPoll("rx_ne"), EvPoll("btf"), EvStop,
                       EvDrRead(buffer[1]), EvDrRead(buffer[2])>>

\* C8 witness: write_read(0x50, [0x10], buffer of length 2) returned Ok with
\* two different bytes received.
C8_Witness ==
    /\ ReturnedOk("write_read")
    /\ call.addr = 80
    /\ call.bytes = <<16>>
    /\ buffer = <<170, 187>>

\* C9: every construction sets the clock-enable bit, sets the reset bit,
\* clears the reset bit and writes the peripheral-enable bit, in this order
\* and whatever the frequency and the clock information; it always ends
\* with a controller for the instance and the pins it was given.
C9_ConstructionSequence ==
    (Returned("i2cX")) =>
        /\ result = "Self"
        /\ trace = <<<<"ENR", call.i2c, 1>>, <<"RSTR", call.i2c, 1>>,
                     <<"RSTR", call.i2c, 0>>, EvPeSet>>
        /\ call.i2c \in enr
        /\ call.i2c \notin rstr
        /\ cr1[call.i2c] = {"PE"}
        /\ [i2c |-> call.i2c, pins |-> call.pins] \in ctrls

\* C9 witness: a controller was rebuilt on an instance that had been
\* released, with another pin pair, another frequency and another clock.
C9_Witness ==
    /\ Returned("i2cX")
    /\ result = "Self"
    /\ released # <<>>
    /\ released[1] = call.i2c
    /\ released[2] # call.pins
    /\ call.freq = 400000
    /\ call.clocks = 36000000

\* handles held by the live controllers
Held == UNION {{c.i2c, c.pins[1], c.pins[2]} : c \in ctrls}

\* handles moved into a constructor that has not returned yet
InFlight ==
    IF pc # 0 /\ call.op = "i2cX"
      THEN {call.i2c, call.pins[1], call.pins[2]}
      ELSE {}

\* at most one live controller per instance, and every handle is in exactly
\* one place: with the caller, inside a controller, or inside a constructor
ExclusiveOwnership ==
    /\ \A i \in Instances : Cardinality({c \in ctrls : c.i2c = i}) <= 1
    /\ \A c \in ctrls : \A d \in ctrls : c # d => c.pins[1] # d.pins[1] /\ c.pins[2] # d.pins[2]
    /\ owned \cup Held \cup InFlight = Instances \cup Pins
    /\ owned \cap Held = {}
    /\ owned \cap InFlight = {}
    /\ Held \cap InFlight = {}

\* a free step hands back the handle and the pin pair of the controller it
\* consumes and leaves every register alone
FreeStep ==
    (result' = "Released" /\ ctrls' # ctrls) =>
        /\ \E c \in ctrls :
             /\ ctrls' = ctrls \ {c}
             /\ released' = <<c.i2c, c.pins>>
             /\ owned' = owned \cup {c.i2c, c.pins[1], c.pins[2]}
        /\ UNCHANGED <<enr, rstr, cr1>>
        /\ trace' = <<>>

\* C10: at most one live controller per instance at any time; the
\* constructor consumes the handle and the pin pair, so the instance cannot
\* be configured again until free; free returns exactly that handle and
\* that (clock pin, data pin) pair and touches no register.
C10_OneControllerPerInstance ==
    [](ExclusiveOwnership) /\ [][FreeStep]_vars

\* C10 witness: the I2C1 controller built on (PB8, PB9) was released while
\* the I2C2 controller is live: the caller owns I2C1 and both pins again.
C10_Witness ==
    /\ result = "Released"
    /\ released = <<"I2C1", <<"PB8", "PB9">>>>
    /\ {"I2C1", "PB8", "PB9"} \subseteq owned
    /\ \E c \in ctrls : c.i2c = "I2C2"
    /\ cr1["I2C1"] = {"PE"}

\* the enumerated capability set: (instance, clock pin, data pin)
CapabilitySet ==
    {<<"I2C1", <<"PB6", "PB7">>>>, <<"I2C1", <<"PB6", "PB9">>>>,
     <<"I2C1", <<"PB8", "PB7">>>>, <<"I2C1", <<"PB8", "PB9">>>>,
     <<"I2C2", <<"PB10", "PB11">>>>}

Min(a, b) == IF a <= b THEN a ELSE b

IsPrefix(a, b) == Len(a) <= Len(b) /\ a = SubSeq(b, 1, Len(a))

\* number of register accesses of an error-free write
WriteLen(bytes) == 7 + 2 * Len(bytes)

ErrorFlags == {"berr", "arlo"}

\* the error busy_wait returns for a status read that shows an error flag
ErrorOf(s) == IF "berr" \in s THEN "Bus" ELSE "Arbitration"

\* the running or finished call follows the write sequence of section 4.3
\* for its first accesses, and if it returned within them it returned the
\* error of its last status read, that poll being its last access
FollowsWriteSequence ==
    LET k == WriteLen(call.bytes)
        n == Min(Len(trace), k)
    IN /\ SubSeq(trace, 1, n) = SubSeq(ExpectedWrite(call.addr, call.bytes), 1, n)
       /\ (pc = 0 /\ Len(trace) < k) =>
            /\ trace # <<>>
            /\ trace[Len(trace)][1] = "POLL"
            /\ sr1 \cap ErrorFlags # {}
            /\ result = ErrorOf(sr1)

\* C12: the write phase of write_read is the sequence of write: both follow
\* the same START .. STOP sequence for the same address and payload, return
\* the same error at the same poll for the same status reads, and
\* write_read continues right after the STOP with setting ACK.
C12_WritePhaseIdentical ==
    /\ call.op = "write" =>
         /\ FollowsWriteSequence
         /\ Len(trace) <= WriteLen(call.bytes)
    /\ call.op = "write_read" =>
         /\ FollowsWriteSequence
         /\ Len(trace) > WriteLen(call.bytes) =>
              trace[WriteLen(call.bytes) + 1] = EvAckSet
         /\ ~(pc = 0 /\ Len(trace) = WriteLen(call.bytes))

\* C12 witness: write_read has sent two payload bytes, written STOP and
\* just set ACK.
C12_Witness ==
    /\ call.op = "write_read"
    /\ pc = 248
    /\ call.bytes = <<16, 32>>
    /\ trace[Len(trace)] = EvAckSet
    /\ trace[Len(trace) - 1] = EvStop

\* index in the trace of the ADDR poll of the read phase
ReadAddrPoll == WriteLen(call.bytes) + 5

\* control-register writes staged for a read of n bytes
ExpectedPreConfig(n) ==
    CASE n = 1 -> <<EvAckClear>>
      [] n = 2 -> <<EvAckClear, EvPosSet>>
      [] OTHER -> <<>>

\* C13: in the read phase of write_read, what follows the ADDR poll is the
\* acknowledge pre-configuration of the buffer length (length 1: ACK clear;
\* length 2: ACK clear, POS set; length 0 and length >= 3: nothing) and then
\* the SR1 read and the SR2 read that clear ADDR, in this order.
C13_PreConfigBeforeAddrClear ==
    call.op = "write_read" =>
        LET exp == ExpectedPreConfig(Len(buffer)) \o <<EvSr1Read, EvSr2Read>>
            got == SubSeq(trace, ReadAddrPoll + 1,
                          Min(Len(trace), ReadAddrPoll + Len(exp)))
        IN /\ got = SubSeq(exp, 1, Len(got))
           /\ Len(trace) >= ReadAddrPoll => trace[ReadAddrPoll] = EvPoll("addr")
           /\ pc = 270 => Len(trace) = ReadAddrPoll + Len(exp)

\* C13 witness: write_read with a length-2 buffer has cleared ADDR after
\* clearing ACK and setting POS.
C13_Witness ==
    /\ call.op = "write_read"
    /\ pc = 270
    /\ Len(buffer) = 2
    /\ SubSeq(trace, Len(trace) - 4, Len(trace))
         = <<EvPoll("addr"), EvAckClear, EvPosSet, EvSr1Read, EvSr2Read>>

\* the final phase of section 4.4 step 7 for the lengths 0 to 3, read
\* values blanked
ExpectedFinal(n) ==
    CASE n = 1 -> <<EvPoll("rx_ne"), EvStop, EvDrRead(0)>>
      [] n = 2 -> <<EvPoll("rx_ne"), EvPoll("btf"), EvStop, EvDrRead(0), EvDrRead(0)>>
      [] n = 3 -> <<EvPoll("rx_ne"), EvPoll("btf"), EvAckClear, EvPoll("rx_ne"),
                    EvPoll("btf"), EvStop, EvDrRead(0), EvDrRead(0)>>
      [] OTHER -> <<>>

\* C14: for the buffer lengths 1, 2 and 3 the final phase of write_read
\* writes STOP before it reads the data register (1: poll RxNE, STOP, one
\* read; 2: poll RxNE, poll BTF, STOP, two reads; 3: poll RxNE, poll BTF,
\* ACK clear, poll RxNE, poll BTF, STOP, two reads), and for length 0 it
\* makes no register access.
C14_FinalPhaseByLength ==
    (ReturnedOk("write_read") /\ Len(buffer) <= 3) =>
        /\ Shape(AfterAddrClear(trace)) = ExpectedFinal(Len(buffer))
        /\ \A i \in 1..Len(trace) : IsDrRead(trace[i]) =>
              \E j \in 1..(i - 1) : trace[j] = EvStop /\ j > ReadAddrPoll

\* C14 witness: write_read with a length-3 buffer returned Ok.
C14_Witness ==
    /\ ReturnedOk("write_read")
    /\ Len(buffer) = 3
    /\ Len(DrReads(trace)) = 2

ReturnedError(op) == Returned(op) /\ result \in {"Bus", "Arbitration"}

\* C15: when write_read returns an error, the buffer elements assigned so
\* far are those the drain loop filled from index 3 onward, one per
\* data-register read and in order; every other element still has the
\* value it had before the call, and an error at any poll up to the ADDR
\* poll of the read phase leaves the whole buffer as it was.
C15_ErrorLeavesRestOfBuffer ==
    ReturnedError("write_read") =>
        LET reads == DrReads(trace) IN
        /\ \A i \in 1..Len(buffer) :
             IF i \in 4..(3 + Len(reads))
               THEN buffer[i] = reads[i - 3][3]
               ELSE buffer[i] \in PriorBytes
        /\ Len(trace) <= ReadAddrPoll => \A i \in 1..Len(buffer) : buffer[i] \in PriorBytes

\* C15 witness: write_read with a length-7 buffer failed at the third poll
\* of the drain loop: buffer[3] and buffer[4] were received, the rest is
\* as before the call.
C15_Witness ==
    /\ ReturnedError("write_read")
    /\ buffer = <<0, 0, 0, 170, 187, 0, 0>>
    /\ trace[Len(trace)] = EvPoll("rx_ne")

\* every value of the u8 address argument
U8 == 0..255

\* C16: the address byte written to the data register is (addr * 2) mod 256
\* in the write direction (bit 0 clear) and that value plus 1 in the read
\* direction (bit 0 set); its upper seven bits are addr for addr <= 127, and
\* for addr >= 128 the top bit is dropped, so addr and addr - 128 give the
\* same byte; the call reports no error for such an address.
C16_AddressByte ==
    /\ \A a \in U8 :
         /\ ShiftAddr(a) = (a * 2) % 256
         /\ ShiftAddr(a) % 2 = 0
         /\ ShiftAddrRead(a) = ShiftAddr(a) + 1
         /\ ShiftAddrRead(a) % 2 = 1
         /\ a <= 127 => ShiftAddr(a) \div 2 = a /\ ShiftAddrRead(a) \div 2 = a
         /\ a >= 128 => ShiftAddr(a) = ShiftAddr(a - 128)
                          /\ ShiftAddrRead(a) = ShiftAddrRead(a - 128)
    /\ call.op \in {"write", "write_read"} =>
         /\ Len(trace) >= 3 =>
              /\ IsDrWrite(trace[3])
              /\ trace[3][3] = (call.addr * 2) % 256
              /\ trace[3][3] \div 2 = call.addr % 128
         /\ (call.op = "write_read" /\ Len(trace) >= ReadAddrPoll - 1) =>
              /\ IsDrWrite(trace[ReadAddrPoll - 1])
              /\ trace[ReadAddrPoll - 1][3] = ((call.addr * 2) % 256) + 1
         /\ ReturnedError(call.op) => sr1 \cap ErrorFlags # {}

\* C16 witness: write_read with the address 0xD0 = 0x50 + 128 returned Ok
\* after writing 0xA0 and 0xA1, the bytes of the address 0x50.
C16_Witness ==
    /\ ReturnedOk("write_read")
    /\ call.addr = 208
    /\ trace[3] = EvDrWrite(160)
    /\ trace[ReadAddrPoll - 1] = EvDrWrite(161)

\* an iteration of busy_wait that takes "try again" changes nothing but the
\* local sr1 and the iteration count, and a busy_wait is left only by an
\* iteration whose status read shows the awaited flag or an error flag
PollStep ==
    /\ (pc # 0 /\ pc' = pc) =>
         UNCHANGED <<owned, ctrls, enr, rstr, cr1, call, buffer, idx, trace,
                     result, released>>
    /\ (trace' # trace /\ trace' # <<>> /\ trace'[Len(trace')][1] = "POLL") =>
         sr1' \cap {trace'[Len(trace')][2], "berr", "arlo"} # {}

\* C17: a poll has no timeout and no side effect: a call goes past a poll
\* only after a status read that shows the awaited flag, bus error or
\* arbitration loss, and until then it writes no register and does not
\* touch the buffer; when the hardware eventually shows one of the three
\* at every poll, every call returns.
C17_PollsBlockUntilFlag ==
    [][PollStep]_vars /\ ((pc # 0) ~> (pc = 0))

\* C17 witness: write_read waits in the drain loop after as many empty
\* status reads as the model follows, one byte already received.
C17_Witness ==
    /\ call.op = "write_read"
    /\ pc = 272
    /\ spin = MaxSpin
    /\ sr1 = {}
    /\ Len(DrReads(trace)) = 1

\* C18: a status read that shows an error flag ends the call with that
\* error even when it also shows the awaited flag, and with Error::Bus when
\* it shows both error flags; so a call is running or has returned Ok only
\* if none of its status reads showed bus error or arbitration loss.
C18_FlagPriority ==
    call.op \in {"write", "write_read"} =>
        /\ sr1 \cap ErrorFlags # {} =>
             /\ pc = 0
             /\ result = (IF "berr" \in sr1 THEN "Bus" ELSE "Arbitration")
             /\ trace[Len(trace)][1] = "POLL"
        /\ (pc # 0 \/ result = "Ok") => sr1 \cap ErrorFlags = {}

\* C18 witness: the BTF poll of write read bus error, arbitration loss and
\* BTF at once, and write returned Error::Bus.
C18_Witness ==
    /\ Returned("write")
    /\ sr1 = {"berr", "arlo", "btf"}
    /\ result = "Bus"
    /\ trace[Len(trace)] = EvPoll("btf")

\* C19: once the constructor has set the peripheral-enable bit, the bit is
\* set in CR1 of every instance that has a live controller, whatever
\* transactions ran.  The code breaks this: every cr1.write of a
\* transaction writes the other bits, PE included, as 0.
C19_PeStaysSet ==
    \A c \in ctrls : "PE" \in cr1[c.i2c]

\* C20: in write_read with a buffer of length 3 or more, from the moment
\* ACK is set after the STOP of the write phase until the code clears ACK,
\* the ACK bit is set in CR1.  The code breaks this: the write of the
\* repeated START at line 248 writes ACK as 0.
C20_AckStaysSet ==
    (/\ call.op = "write_read"
     /\ Len(buffer) >= 3
     /\ pc # 0
     /\ Len(trace) > WriteLen(call.bytes)
     /\ \A i \in 1..Len(trace) : trace[i] # EvAckClear)
      => "ACK" \in cr1[call.i2c]

====
